---- MODULE Spec2Model ----
(***************************************************************************)
(* Model of scripts/nfl-data-pipeline.py: the batched upload               *)
(* NFLDataPipeline.update_supabase_database and the fetch sequence         *)
(* NFLDataPipeline.run_full_pipeline.                                      *)
(*                                                                         *)
(* An optional string (the value of os.getenv) is a sequence of strings:   *)
(* <<>> is None, <<"">> is the empty string, <<s>> is the string s.        *)
(* A record of the data list is a natural number; a URL built by an        *)
(* f-string is the tuple of its pieces.                                    *)
(***************************************************************************)
EXTENDS Integers, Sequences, FiniteSets, TLC

VARIABLES
    supabase_url,   \* self.supabase_url
    supabase_key,   \* self.supabase_key
    pc,             \* position inside update_supabase_database
    data_type,      \* argument data_type
    data,           \* argument data
    url,            \* local url
    i,              \* loop variable i of range(0, len(data), batch_size)
    sent,           \* the requests.post calls issued so far, in order
    replies,        \* what each issued call produced: a status or an exception
    result,         \* the value returned: "none" until the call returns
    propagated,     \* an exception left update_supabase_database
    step,           \* number of fetch steps run_full_pipeline has executed
    returned,       \* the values the executed fetch steps returned, in order
    files,          \* output files written by the fetch steps
    pipeline,       \* "ready", "running", "completed" or "crashed"
    output_dir,     \* self.output_dir
    season,         \* self.current_season
    calls,          \* number of update_supabase_database calls entered
    prev_result,    \* what the call before the current one returned
    simple,         \* run_simple_pipeline: "ready", "running", "completed",
                    \* "raised" (left by an exception) or "returned"
    simple_step,    \* number of steps run_simple_pipeline has finished
    simple_trace,   \* the steps it has called, and whether each raised
    simple_log,     \* the messages run_simple_pipeline itself has printed
    simple_files    \* output files written by its steps

vars == <<supabase_url, supabase_key, pc, data_type, data, url, i, sent,
          replies, result, propagated, step, returned, files, pipeline,
          output_dir, season, calls, prev_result,
          simple, simple_step, simple_trace, simple_log, simple_files>>

uploadVars == <<pc, data_type, data, url, i, sent, replies, result, propagated>>
pipelineVars == <<step, returned, files, pipeline>>
configVars == <<supabase_url, supabase_key, output_dir, season>>
repeatVars == <<calls, prev_result>>
simpleVars == <<simple, simple_step, simple_trace, simple_log, simple_files>>

-----------------------------------------------------------------------------
(* Bounds of the model *)

\* longest data list passed to update_supabase_database
MaxLen == 301

\* batch_size
BatchSize == 100

\* number of successive update_supabase_database calls on one pipeline object
MaxCalls == 2

-----------------------------------------------------------------------------
(* Values *)

None == <<>>
Str(s) == <<s>>

\* what os.getenv can give for the two settings
EnvValues == {None, Str(""), Str("https://proj.supabase.co")}
KeyValues == {None, Str(""), Str("anon-key")}

\* Python truthiness of an optional string
Truthy(v) == v # None /\ v[1] # ""

DataTypes == {"players", "stats", "projections", "schedule"}

\* data lists: all records distinct, or records repeating with period 3
DataLists == {[k \in 1..n |-> IF distinct THEN k ELSE k % 3] :
                 n \in 0..MaxLen, distinct \in BOOLEAN}

\* the output_dir argument of the constructors
OutputDirs == {"data/nfl", "out"}

\* outcomes of one requests.post: a response status, or a raised exception
Statuses == {200, 201, 202, 204, 404, 500}
Response(s) == [raised |-> FALSE, status |-> s]
Raised == [raised |-> TRUE, status |-> 0]
Outcomes == {Response(s) : s \in Statuses} \cup {Raised}

Min(a, b) == IF a < b THEN a ELSE b

\* Python slice s[lo:hi] for 0 <= lo <= hi (0-based, hi exclusive, clipped)
Slice(s, lo, hi) == SubSeq(s, lo + 1, Min(hi, Len(s)))

-----------------------------------------------------------------------------
(* update_supabase_database *)

CredentialsMissingAnd(u, k) == ~Truthy(u) /\ ~Truthy(k)
\* line 232: not self.supabase_url or not self.supabase_key
CredentialsMissing(u, k) == ~Truthy(u) \/ ~Truthy(k)

\* an optional string formatted inside an f-string: str(None) is "None"
Format(v) == IF v = None THEN "None" ELSE v[1]

\* lines 239-244
Headers(k) == [apikey |-> k,
               Authorization |-> <<"Bearer ", Format(k)>>,
               ContentType |-> "application/json",
               Prefer |-> "return=minimal"]

\* lines 247-251
table_mapping == [players |-> "nfl_players",
                  stats |-> "player_game_stats",
                  projections |-> "player_projections"]

TableNameNoFallback(dt) ==
    IF dt \in DOMAIN table_mapping THEN table_mapping[dt] ELSE ""
\* line 253: table_mapping.get(data_type, data_type)
TableName(dt) ==
    IF dt \in DOMAIN table_mapping THEN table_mapping[dt] ELSE dt

\* line 254: f"{self.supabase_url}/rest/v1/{table_name}"
Url(u, dt) == <<Format(u), "/rest/v1/", TableName(dt)>>

LoopContinuesInclusive(idx, d) == idx <= Len(d)
\* line 258: range(0, len(data), batch_size) has a next value idx
LoopContinues(idx, d) == idx < Len(d)

NextIndexShort(idx) == idx + BatchSize - 1
NextIndexStuck(idx) == idx
\* line 258: the step of the range
NextIndex(idx) == idx + BatchSize

BatchOverlapping(d, idx) == Slice(d, idx, idx + BatchSize + 1)
\* line 259: data[i:i + batch_size]
Batch(d, idx) == Slice(d, idx, idx + BatchSize)

IsSuccessAny2xx(status) == status \in 200..299
IsSuccessOnly200(status) == status = 200
\* line 262: response.status_code not in [200, 201], negated
IsSuccess(status) == status \in {200, 201}

AfterResponseKeepGoing(r) == "loop"
\* lines 262-266: return False on a failed batch, else go on with the loop
AfterResponse(r) == IF IsSuccess(r.status) THEN "loop" ELSE "done"

OnExceptionUncaught(r) == [result |-> "none", propagated |-> TRUE]
\* lines 271-273: except Exception, return False
OnException(r) == [result |-> "false", propagated |-> FALSE]

\* lines 232-257: the credentials check and the set-up before the loop
Call ==
    /\ pc = "idle"
    /\ \E dt \in DataTypes, d \in DataLists :
          /\ data_type' = dt
          /\ data' = d
          /\ IF CredentialsMissing(supabase_url, supabase_key)
                THEN /\ pc' = "done"
                     /\ result' = "false"
                     /\ url' = <<>>
                ELSE /\ pc' = "loop"
                     /\ result' = "none"
                     /\ url' = Url(supabase_url, dt)
    /\ i' = 0
    /\ sent' = <<>>
    /\ replies' = <<>>
    /\ propagated' = FALSE
    /\ UNCHANGED <<configVars, repeatVars, simpleVars, pipelineVars>>

\* lines 258-260: the loop has a next batch; it is sliced and posted
Post ==
    /\ pc = "loop"
    /\ LoopContinues(i, data)
    /\ sent' = Append(sent, [method |-> "POST",
                             url |-> url,
                             headers |-> Headers(supabase_key),
                             json |-> Batch(data, i)])
    /\ pc' = "wait"
    /\ UNCHANGED <<configVars, repeatVars, simpleVars, pipelineVars, data_type, data, url, i,
                   replies, result, propagated>>

\* lines 260-266 and 271-273: requests.post returns a response or raises
Respond ==
    /\ pc = "wait"
    /\ \E r \in Outcomes :
          /\ replies' = Append(replies, r)
          /\ IF r.raised
                THEN /\ pc' = "done"
                     /\ result' = OnException(r).result
                     /\ propagated' = OnException(r).propagated
                     /\ i' = i
                ELSE /\ pc' = AfterResponse(r)
                     /\ result' = IF AfterResponse(r) = "done"
                                     THEN "false" ELSE result
                     /\ propagated' = propagated
                     /\ i' = IF AfterResponse(r) = "done"
                                THEN i ELSE NextIndex(i)
    /\ UNCHANGED <<configVars, repeatVars, simpleVars, pipelineVars, data_type, data, url, sent>>

\* lines 258 and 268-269: the range is exhausted, return True
Return ==
    /\ pc = "loop"
    /\ ~LoopContinues(i, data)
    /\ pc' = "done"
    /\ result' = "true"
    /\ UNCHANGED <<configVars, repeatVars, simpleVars, pipelineVars, data_type, data, url, i, sent,
                   replies, propagated>>

-----------------------------------------------------------------------------
(* Successive calls of update_supabase_database on one pipeline object *)

\* list lengths of the successive calls: none, one record, a full batch, one
\* record more, and two full batches with a partial one
RepeatLens == {0, 1, BatchSize, BatchSize + 1, 2 * BatchSize + 50}
RepeatLists == {d \in DataLists : Len(d) \in RepeatLens}

StartIndexRetained(left) == left
\* line 258: i is a local of the call; range(0, ...) starts it at 0 whatever
\* value an earlier call left
StartIndex(left) == 0

\* lines 232-257, entered on an object that may have been used before
Invoke ==
    /\ pc \in {"idle", "done"}
    /\ calls < MaxCalls
    /\ calls' = calls + 1
    /\ prev_result' = result
    /\ \E dt \in DataTypes, d \in RepeatLists :
          /\ data_type' = dt
          /\ data' = d
          /\ IF CredentialsMissing(supabase_url, supabase_key)
                THEN /\ pc' = "done"
                     /\ result' = "false"
                     /\ url' = <<>>
                ELSE /\ pc' = "loop"
                     /\ result' = "none"
                     /\ url' = Url(supabase_url, dt)
    /\ i' = StartIndex(i)
    /\ sent' = <<>>
    /\ replies' = <<>>
    /\ propagated' = FALSE
    /\ UNCHANGED <<configVars, simpleVars, pipelineVars>>

-----------------------------------------------------------------------------
(* The fetch steps and run_full_pipeline *)

current_season == 2024

\* what the upstream library and the file system can do during one fetch step
Upstream == {"ok", "import_raises", "save_raises"}

\* the body of a fetch method: import, save to JSON, return the frame;
\* except Exception: report and return the empty value
TryFetch(o, file, value, empty) ==
    IF o = "ok"
        THEN [value |-> value, raised |-> FALSE, wrote |-> {file}]
        ELSE [value |-> empty, raised |-> FALSE, wrote |-> {}]

\* lines 155-168
fetch_team_data(o) == TryFetch(o, <<"teams">>, "DataFrame", "EmptyDataFrame")

fetch_roster_data_no_except(years, o) ==
    IF o = "ok"
        THEN [value |-> "DataFrame", raised |-> FALSE,
              wrote |-> {<<"rosters", years>>}]
        ELSE [value |-> "none", raised |-> TRUE, wrote |-> {}]
\* lines 52-66
fetch_roster_data(years, o) ==
    TryFetch(o, <<"rosters", years>>, "DataFrame", "EmptyDataFrame")

\* lines 117-130
fetch_schedule_data(years, o) ==
    TryFetch(o, <<"schedule", years>>, "DataFrame", "EmptyDataFrame")

\* lines 136-149
fetch_injury_reports(o) ==
    TryFetch(o, <<"injuries", current_season>>, "DataFrame", "EmptyDataFrame")

\* lines 78-108
fetch_player_stats(years, stat_type, o) ==
    TryFetch(o, <<stat_type, "stats", years>>, "DataFrame", "EmptyDataFrame")

\* lines 182-225
create_player_projections_dataset(o) ==
    TryFetch(o, <<"projection_dataset">>, "dataset", "EmptyDict")

\* lines 280-291: the calls of run_full_pipeline, in order
StepNames == <<"teams", "rosters", "schedule", "injuries",
               "passing", "rushing", "receiving", "projections">>

StepCall(k, o) ==
    CASE k = 1 -> fetch_team_data(o)
      [] k = 2 -> fetch_roster_data(current_season, o)
      [] k = 3 -> fetch_schedule_data(current_season, o)
      [] k = 4 -> fetch_injury_reports(o)
      [] k = 5 -> fetch_player_stats(current_season, "passing", o)
      [] k = 6 -> fetch_player_stats(current_season, "rushing", o)
      [] k = 7 -> fetch_player_stats(current_season, "receiving", o)
      [] k = 8 -> create_player_projections_dataset(o)

\* line 275-277: run_full_pipeline is entered
StartPipeline ==
    /\ pipeline = "ready"
    /\ pipeline' = "running"
    /\ UNCHANGED <<configVars, repeatVars, simpleVars, uploadVars, step, returned, files>>

\* lines 280-291: the next call of the sequence; run_full_pipeline has no
\* handler of its own, so an exception leaving a step ends it
FetchStep ==
    /\ pipeline = "running"
    /\ step < Len(StepNames)
    /\ \E o \in Upstream :
          LET r == StepCall(step + 1, o) IN
          /\ step' = step + 1
          /\ files' = files \cup r.wrote
          /\ returned' = Append(returned, [call |-> StepNames[step + 1],
                                           upstream |-> o,
                                           value |-> r.value])
          /\ pipeline' = IF r.raised THEN "crashed" ELSE "running"
    /\ UNCHANGED <<configVars, repeatVars, simpleVars, uploadVars>>

\* lines 293-299: the completion messages
CompletePipeline ==
    /\ pipeline = "running"
    /\ step = Len(StepNames)
    /\ pipeline' = "completed"
    /\ UNCHANGED <<configVars, repeatVars, simpleVars, uploadVars, step, returned, files>>

-----------------------------------------------------------------------------
(* scripts/simple-nfl-data-fetch.py: the steps and run_simple_pipeline *)

\* a step writes its files in order with open and json.dump, none of them
\* inside a try; w is the number of files written before a write raises
WriteFiles(dir, names, w) ==
    [raised |-> w < Len(names),
     wrote |-> {<<dir, names[k]>> : k \in 1..Min(w, Len(names))}]

\* lines 34-80
fetch_teams_data(dir, w) == WriteFiles(dir, <<"teams.json">>, w)

\* lines 82-180
create_sample_rosters(dir, w) == WriteFiles(dir, <<"rosters_2024.json">>, w)

\* lines 182-272
create_sample_stats(dir, w) ==
    WriteFiles(dir, <<"passing_stats_2024.json", "rushing_stats_2024.json",
                      "receiving_stats_2024.json">>, w)

\* lines 274-304
create_projection_dataset(dir, w) ==
    WriteFiles(dir, <<"projection_dataset.json">>, w)

\* lines 312-315: the calls of run_simple_pipeline, in order
SimpleStepNames == <<"fetch_teams_data", "create_sample_rosters",
                     "create_sample_stats", "create_projection_dataset">>

\* the number of files each step writes
SimpleStepWrites == <<1, 1, 3, 1>>

SimpleStepCall(k, dir, w) ==
    CASE k = 1 -> fetch_teams_data(dir, w)
      [] k = 2 -> create_sample_rosters(dir, w)
      [] k = 3 -> create_sample_stats(dir, w)
      [] k = 4 -> create_projection_dataset(dir, w)

PipelineExceptSwallowed(log) ==
    [log |-> Append(log, "failed"), simple |-> "returned"]
\* lines 324-326: except Exception: print the failure, raise
PipelineExcept(log) ==
    [log |-> Append(log, "failed"), simple |-> "raised"]

\* lines 306-310: run_simple_pipeline is entered
StartSimple ==
    /\ simple = "ready"
    /\ simple' = "running"
    /\ simple_log' = Append(simple_log, "starting")
    /\ UNCHANGED <<configVars, repeatVars, uploadVars, pipelineVars,
                   simple_step, simple_trace, simple_files>>

\* lines 312-315 and 324-326: the next step of the try block; an exception
\* leaving it goes to the handler
SimpleStep ==
    /\ simple = "running"
    /\ simple_step < Len(SimpleStepNames)
    /\ \E w \in 0..SimpleStepWrites[simple_step + 1] :
          LET r == SimpleStepCall(simple_step + 1, output_dir, w) IN
          /\ simple_files' = simple_files \cup r.wrote
          /\ simple_trace' = Append(simple_trace,
                                    [call |-> SimpleStepNames[simple_step + 1],
                                     raised |-> r.raised])
          /\ IF r.raised
                THEN /\ simple' = PipelineExcept(simple_log).simple
                     /\ simple_log' = PipelineExcept(simple_log).log
                     /\ simple_step' = simple_step
                ELSE /\ simple' = "running"
                     /\ simple_log' = simple_log
                     /\ simple_step' = simple_step + 1
    /\ UNCHANGED <<configVars, repeatVars, uploadVars, pipelineVars>>

\* lines 317-322: the completion messages
CompleteSimple ==
    /\ simple = "running"
    /\ simple_step = Len(SimpleStepNames)
    /\ simple' = "completed"
    /\ simple_log' = Append(simple_log, "completed")
    /\ UNCHANGED <<configVars, repeatVars, uploadVars, pipelineVars,
                   simple_step, simple_trace, simple_files>>

-----------------------------------------------------------------------------
(* Specifications *)

Init ==
    /\ supabase_url \in EnvValues
    /\ supabase_key \in KeyValues
    /\ pc = "idle"
    /\ data_type = ""
    /\ data = <<>>
    /\ url = <<>>
    /\ i = 0
    /\ sent = <<>>
    /\ replies = <<>>
    /\ result = "none"
    /\ propagated = FALSE
    /\ step = 0
    /\ returned = <<>>
    /\ files = {}
    /\ pipeline = "ready"
    /\ output_dir \in OutputDirs
    /\ season = current_season
    /\ calls = 0
    /\ prev_result = "none"
    /\ simple = "ready"
    /\ simple_step = 0
    /\ simple_trace = <<>>
    /\ simple_log = <<>>
    /\ simple_files = {}

Next == Call \/ Post \/ Respond \/ Return

Spec == Init /\ [][Next]_vars

\* requests.post blocks until it returns or raises and the interpreter runs
\* the loop on: a call that has been entered keeps taking its steps
LiveSpec ==
    Init /\ [][Next]_vars /\ WF_vars(Post) /\ WF_vars(Respond) /\ WF_vars(Return)

RepeatNext == Invoke \/ Post \/ Respond \/ Return

RepeatSpec == Init /\ [][RepeatNext]_vars

PipelineNext == StartPipeline \/ FetchStep \/ CompletePipeline

PipelineSpec == Init /\ [][PipelineNext]_vars

SimpleNext == StartSimple \/ SimpleStep \/ CompleteSimple

SimpleSpec == Init /\ [][SimpleNext]_vars

-----------------------------------------------------------------------------
(* Vocabulary of the properties *)

CredentialsPresent == Truthy(supabase_url) /\ Truthy(supabase_key)

\* the reply to the k-th request was a response with status 200 or 201
Answered200or201(k) ==
    /\ k \in 1..Len(replies)
    /\ ~replies[k].raised
    /\ replies[k].status \in {200, 201}

\* the reply to the k-th request was a response with another status
AnsweredOtherStatus(k) ==
    /\ k \in 1..Len(replies)
    /\ ~replies[k].raised
    /\ replies[k].status \notin {200, 201}

AllAnswered200or201 ==
    /\ Len(replies) = Len(sent)
    /\ \A k \in 1..Len(sent) : Answered200or201(k)

\* ceil(n / 100)
CeilDiv100(n) == (n + 99) \div 100

RECURSIVE ConcatBodies(_)
\* the request bodies of reqs, concatenated in the order of reqs
ConcatBodies(reqs) ==
    IF reqs = <<>> THEN <<>>
    ELSE ConcatBodies(SubSeq(reqs, 1, Len(reqs) - 1)) \o reqs[Len(reqs)].json

RECURSIVE AcceptedUpTo(_)
\* the records of the first k requests that were answered 200 or 201
AcceptedUpTo(k) ==
    IF k = 0 THEN <<>>
    ELSE AcceptedUpTo(k - 1) \o
         (IF Answered200or201(k) THEN sent[k].json ELSE <<>>)

BatchSizes == [k \in 1..Len(sent) |-> Len(sent[k].json)]

-----------------------------------------------------------------------------
(* Properties of update_supabase_database *)

\* C1: with credentials present and every write answered 200 or 201, the
\* request bodies sent, concatenated in sending order, are the input sequence
\* itself when the call has returned, and a prefix of it while it runs.
C1_BodiesEqualInput ==
    (pc # "idle" /\ CredentialsPresent /\
     \A k \in 1..Len(replies) : Answered200or201(k))
        => /\ Len(ConcatBodies(sent)) <= Len(data)
           /\ ConcatBodies(sent) = SubSeq(data, 1, Len(ConcatBodies(sent)))
           /\ pc = "done" => ConcatBodies(sent) = data

C1_Witness ==
    /\ pc = "done"
    /\ CredentialsPresent
    /\ AllAnswered200or201
    /\ Len(data) = 301
    /\ data[1] = data[4]
    /\ Len(sent) = 4

\* C2: once a batch write has returned a status outside {200, 201}, it is the
\* last request of the call, the call has returned false, and no step issues
\* another request.
C2_NoWriteAfterFailure ==
    /\ [](\A k \in 1..Len(replies) :
            AnsweredOtherStatus(k)
                => (k = Len(sent) /\ pc = "done" /\ result = "false"))
    /\ [][(\E k \in 1..Len(replies) : AnsweredOtherStatus(k))
            => (sent' = sent /\ result' = "false")]_vars

C2_Witness ==
    /\ pc = "done"
    /\ Len(data) > 200
    /\ Len(sent) = 2
    /\ Answered200or201(1)
    /\ AnsweredOtherStatus(2)
    /\ result = "false"

\* C3: with the endpoint URL or the access key unset or empty, the call
\* issues no write request, returns false and raises nothing, whatever the
\* data_type and the records.
C3_NoCredentialsNoWrite ==
    (pc # "idle" /\ ~CredentialsPresent)
        => (pc = "done" /\ sent = <<>> /\ result = "false" /\ ~propagated)

C3_Witness ==
    /\ pc = "done"
    /\ supabase_url = Str("")
    /\ Truthy(supabase_key)
    /\ Len(data) > 100
    /\ result = "false"

\* C4 as stated: an empty record collection gives zero write requests and
\* the result true.
C4_EmptyAlwaysSucceeds ==
    (pc = "done" /\ data = <<>>) => (sent = <<>> /\ result = "true")

\* C4 amended: with credentials present, an empty record collection gives
\* zero write requests and the result true.
C4_EmptySucceedsWithCredentials ==
    (pc # "idle" /\ data = <<>> /\ CredentialsPresent)
        => /\ sent = <<>>
           /\ pc \in {"loop", "done"}
           /\ pc = "done" => result = "true"

C4_Witness ==
    /\ pc = "done"
    /\ data = <<>>
    /\ CredentialsPresent
    /\ result = "true"

\* C5: for n records, credentials present and every write succeeding, there
\* are exactly ceil(n/100) requests; each holds between 1 and 100 records,
\* each but the last exactly 100, the last n - 100*(ceil(n/100)-1); 250
\* records give the sizes 100, 100, 50.
C5_BatchCountAndSizes ==
    (pc = "done" /\ CredentialsPresent /\ AllAnswered200or201)
        => LET n == Len(data)
               c == CeilDiv100(n)
           IN  /\ Len(sent) = c
               /\ \A k \in 1..Len(sent) :
                     /\ BatchSizes[k] >= 1
                     /\ BatchSizes[k] <= 100
                     /\ k < c => BatchSizes[k] = 100
                     /\ k = c => BatchSizes[k] = n - 100 * (c - 1)
               /\ n = 250 => BatchSizes = <<100, 100, 50>>

C5_Witness ==
    /\ pc = "done"
    /\ CredentialsPresent
    /\ AllAnswered200or201
    /\ Len(data) = 250
    /\ Len(sent) = 3

\* C6: with credentials present the call returns true exactly when every
\* batch was written and answered 200 or 201 with no write raising; any
\* other status, 202 and 204 included, makes it false.
C6_TrueIffAllSucceeded ==
    (pc = "done" /\ CredentialsPresent)
        => /\ result \in {"true", "false"}
           /\ result = "true"
                <=> /\ Len(sent) = CeilDiv100(Len(data))
                    /\ AllAnswered200or201

C6_Witness ==
    /\ pc = "done"
    /\ CredentialsPresent
    /\ Len(replies) = 2
    /\ replies[1] = Response(201)
    /\ replies[2] = Response(204)
    /\ result = "false"

\* C7: the URL of every request is {base_url}/rest/v1/{name}, where name is
\* nfl_players for players, player_game_stats for stats, player_projections
\* for projections, and the data_type itself for any other data_type.
C7_ResourceName ==
    \A k \in 1..Len(sent) :
        sent[k].url =
            <<supabase_url[1], "/rest/v1/",
              CASE data_type = "players" -> "nfl_players"
                [] data_type = "stats" -> "player_game_stats"
                [] data_type = "projections" -> "player_projections"
                [] OTHER -> data_type>>

C7_Witness ==
    /\ Len(sent) = 2
    /\ data_type = "schedule"
    /\ sent[2].url[3] = "schedule"

\* C8: a write that raises ends the call as a failed status does: it is the
\* last request, the call returns false and the exception stays inside.
C8_ExceptionIsFailure ==
    \A k \in 1..Len(replies) :
        replies[k].raised
            => (k = Len(sent) /\ pc = "done" /\ result = "false" /\ ~propagated)

C8_Witness ==
    /\ pc = "done"
    /\ Len(data) > 200
    /\ Len(sent) = 2
    /\ Answered200or201(1)
    /\ replies[2].raised
    /\ result = "false"

\* C9: when the call returns false because batch j failed, the writes
\* answered 200 or 201 are exactly batches 1..j-1 in order, that is the
\* first 100*(j-1) input records, and every request issued is a POST (no
\* delete or rollback request).
C9_AcceptedPrefix ==
    (pc = "done" /\ result = "false" /\ Len(sent) >= 1)
        => LET j == Len(sent)
           IN  /\ Len(replies) = j
               /\ ~Answered200or201(j)
               /\ \A k \in 1..(j - 1) :
                     /\ Answered200or201(k)
                     /\ sent[k].json = SubSeq(data, 100 * (k - 1) + 1, 100 * k)
               /\ AcceptedUpTo(j) = SubSeq(data, 1, 100 * (j - 1))
               /\ \A k \in 1..j : sent[k].method = "POST"

C9_Witness ==
    /\ pc = "done"
    /\ result = "false"
    /\ Len(data) = 301
    /\ Len(sent) = 3
    /\ replies[3] = Response(500)
    /\ AcceptedUpTo(3) = SubSeq(data, 1, 200)

-----------------------------------------------------------------------------
(* Properties of run_full_pipeline *)

\* C10: a fetch step whose upstream fetch (or save) fails returns an empty
\* result; the steps run in the fixed order; no failure ends the pipeline:
\* until it has completed, a next step can always be taken.
C10_FetchFailureContinues ==
    /\ pipeline # "crashed"
    /\ Len(returned) = step
    /\ \A k \in 1..Len(returned) :
          /\ returned[k].call = StepNames[k]
          /\ returned[k].upstream # "ok"
                => returned[k].value \in {"EmptyDataFrame", "EmptyDict"}
    /\ pipeline = "completed" => step = 8
    /\ pipeline # "completed" => ENABLED PipelineNext

C10_Witness ==
    /\ pipeline = "completed"
    /\ step = 8
    /\ returned[2].upstream = "import_raises"
    /\ returned[2].value = "EmptyDataFrame"
    /\ returned[8].upstream = "save_raises"
    /\ returned[3].upstream = "ok"

-----------------------------------------------------------------------------
(* Properties of run_simple_pipeline *)

\* C11: when a step of run_simple_pipeline raises, the failure is logged and
\* the exception leaves run_simple_pipeline; the raising step is the last
\* one called, the completion message is never printed, and nothing happens
\* afterwards.
C11_SimplePipelineReraises ==
    /\ [](\A k \in 1..Len(simple_trace) :
            simple_trace[k].raised
                => /\ k = Len(simple_trace)
                   /\ simple = "raised"
                   /\ simple_log = <<"starting", "failed">>)
    /\ [][(\E k \in 1..Len(simple_trace) : simple_trace[k].raised)
            => UNCHANGED simpleVars]_vars

C11_Witness ==
    /\ simple = "raised"
    /\ Len(simple_trace) = 3
    /\ simple_trace[3].raised
    /\ simple_trace[3].call = "create_sample_stats"
    /\ Cardinality(simple_files) = 4
    /\ simple_log = <<"starting", "failed">>

-----------------------------------------------------------------------------
(* Order and termination of update_supabase_database *)

\* the k-th batch of the data list: records 100*(k-1)+1 .. 100*k, clipped
SliceOfInput(k) == SubSeq(data, 100 * (k - 1) + 1, Min(100 * k, Len(data)))

\* C12: within one call at most one request is outstanding, the requests
\* carry the batches in input order, and the request for batch k+1 is issued
\* only when the replies to batches 1..k have all arrived with 200 or 201.
C12_OneRequestAtATime ==
    /\ [](/\ Len(sent) - Len(replies) \in {0, 1}
          /\ (Len(sent) = Len(replies) + 1) <=> (pc = "wait")
          /\ \A k \in 1..Len(sent) : sent[k].json = SliceOfInput(k)
          /\ \A k \in 1..(Len(sent) - 1) : Answered200or201(k))
    /\ [][Len(sent') > Len(sent)
            => /\ sent' = Append(sent, sent'[Len(sent')])
               /\ Len(replies) = Len(sent)
               /\ \A k \in 1..Len(sent) : Answered200or201(k)]_vars

C12_Witness ==
    /\ pc = "wait"
    /\ Len(sent) = 3
    /\ Len(replies) = 2
    /\ Answered200or201(2)
    /\ Len(data) = 301
    /\ sent[3].json = SubSeq(data, 201, 300)

\* C13: every call that is entered returns, with exactly one of true and
\* false and no exception; each batch is requested at most once (request k
\* carries batch k, so none is sent again), hence at most ceil(n/100) writes.
C13_TerminatesWithoutRetry ==
    /\ [](/\ Len(sent) <= CeilDiv100(Len(data))
          /\ \A k \in 1..Len(sent) : sent[k].json = SliceOfInput(k)
          /\ pc = "done" => (result \in {"true", "false"} /\ ~propagated)
          /\ pc \in {"loop", "wait"} => result = "none")
    /\ [][pc = "done" => UNCHANGED <<result, sent>>]_vars
    /\ (pc # "idle") ~> (pc = "done")

C13_Witness ==
    /\ pc = "done"
    /\ result = "false"
    /\ Len(data) = 301
    /\ Len(sent) = 4
    /\ replies[4].raised

-----------------------------------------------------------------------------
(* Successive calls *)

\* the m requests a call makes, as a function of its arguments and the
\* credentials alone
ExpectedRequests(m) ==
    [k \in 1..m |->
        [method |-> "POST",
         url |-> <<supabase_url[1], "/rest/v1/",
                   CASE data_type = "players" -> "nfl_players"
                     [] data_type = "stats" -> "player_game_stats"
                     [] data_type = "projections" -> "player_projections"
                     [] OTHER -> data_type>>,
         headers |-> [apikey |-> supabase_key,
                      Authorization |-> <<"Bearer ", supabase_key[1]>>,
                      ContentType |-> "application/json",
                      Prefer |-> "return=minimal"],
         json |-> SliceOfInput(k)]]

\* the replies are those of a whole call: none without credentials; else
\* every reply but the last is 200 or 201, and the last one is a failure or
\* the reply to the last batch
RepliesOfWholeCall ==
    IF CredentialsPresent
        THEN /\ \A k \in 1..(Len(replies) - 1) : Answered200or201(k)
             /\ \/ Len(replies) = CeilDiv100(Len(data))
                \/ Len(replies) >= 1 /\ ~Answered200or201(Len(replies))
        ELSE replies = <<>>

\* the result of a call, as a function of its arguments, the credentials and
\* the replies alone
ExpectedResult ==
    IF /\ CredentialsPresent
       /\ Len(replies) = CeilDiv100(Len(data))
       /\ \A k \in 1..Len(replies) : Answered200or201(k)
        THEN "true" ELSE "false"

\* C14: no step of a call changes the configuration (endpoint URL, access
\* key, output directory, season) or the record list it was given, and the
\* requests and the result of every call, the first or a later one, after a
\* success or a failure, are those determined by its arguments, the
\* credentials and the replies it received.
C14_NothingRetained ==
    /\ [][UNCHANGED <<supabase_url, supabase_key, output_dir, season>>]_vars
    /\ [][(pc \in {"loop", "wait"}) => (data' = data)]_vars
    /\ [](pc = "done"
            => /\ Len(sent) = Len(replies)
               /\ RepliesOfWholeCall
               /\ sent = ExpectedRequests(Len(replies))
               /\ result = ExpectedResult)

C14_Witness ==
    /\ calls = 2
    /\ prev_result = "false"
    /\ pc = "done"
    /\ result = "true"
    /\ Len(data) = 250
    /\ Len(sent) = 3

====
